---- MODULE Spec2Model ----
(***************************************************************************)
(* Model of the Pushover Terraform provider: the group-membership resource *)
(* (internal/provider/group_user_resource.go), the message resource, and   *)
(* the REST client (internal/pushover/client.go).                          *)
(*                                                                         *)
(* A types.String is a TLA+ string with the sentinel Null for the null     *)
(* value; a types.Bool is <<>> (null) or <<b>>.  A resource's tracked      *)
(* state is NoState when Terraform holds no state for it.                  *)
(***************************************************************************)
EXTENDS Integers, Sequences, FiniteSets, TLC

VARIABLES
    remote,   \* the remote service's group members: a sequence of rows
    gstate,   \* tracked state of the pushover_group_user resource
    gop,      \* the last group-membership operation and its inputs
    gcalls,   \* remote calls issued by the last group-membership operation
    gdiags,   \* error diagnostics reported by the last operation
    nops,     \* number of operations performed so far
    mstate,   \* tracked state of the pushover_message resource
    mop,      \* the last message operation and its inputs
    mcalls,   \* remote calls issued by the last message operation
    mdiags,   \* error diagnostics reported by the last message operation
    cop,      \* the last client round trip: the method and the response received
    cres,     \* what the client operation returned for it
    client    \* the client the provider built: <<>> (none) or <<[token |-> t]>>

gvars == <<remote, gstate, gop, gcalls, gdiags, nops>>
mvars == <<mstate, mop, mcalls, mdiags>>
cvars == <<cop, cres, client>>
vars == <<remote, gstate, gop, gcalls, gdiags, nops, mstate, mop, mcalls, mdiags,
          cop, cres, client>>

\* ------------------------------------------------------------------ bounds
MaxOps == 2
MaxForeign == 1

\* ------------------------------------------------------- framework values
Null == "<null>"
NoState == [null |-> TRUE]

IsNull(s) == s = Null
ValueString(s) == IF s = Null THEN "" ELSE s
BoolIsNull(b) == b = <<>>
ValueBool(b) == IF b = <<>> THEN FALSE ELSE b[1]
BoolValue(b) == <<b>>

\* the provider-level token the client was built with
ClientToken == "tok"

\* a Client: only its token matters here
NewClient(token) == [token |-> token]

\* a string of n copies of s
RECURSIVE Repeat(_, _)
Repeat(s, n) ==
    IF n = 0 THEN ""
    ELSE LET half == Repeat(s, n \div 2)
         IN IF n % 2 = 0 THEN half \o half ELSE half \o half \o s

\* ----------------------------------------------------------------- client
\* url.Values of a group call: a parameter that is not Set is not in the map
GroupParams(user, device, memo) ==
    [n \in {"token", "user"}
            \cup (IF device # "" THEN {"device"} ELSE {})
            \cup (IF memo # "" THEN {"memo"} ELSE {})
       |-> CASE n = "token" -> ClientToken
             [] n = "user" -> user
             [] n = "device" -> device
             [] n = "memo" -> memo]

GroupRequest(endpoint, groupKey, params) ==
    [method |-> "POST", group |-> groupKey, endpoint |-> endpoint, params |-> params]

AddGroupUser(groupKey, user, device, memo) ==
    GroupRequest("add_user", groupKey, GroupParams(user, device, memo))

RemoveGroupUser(groupKey, user, device) ==
    GroupRequest("delete_user", groupKey, GroupParams(user, device, ""))

EnableGroupUser(groupKey, user, device) ==
    GroupRequest("enable_user", groupKey, GroupParams(user, device, ""))

DisableGroupUser(groupKey, user, device) ==
    GroupRequest("disable_user", groupKey, GroupParams(user, device, ""))

GetGroupRequest(groupKey) ==
    [method |-> "GET", group |-> groupKey, endpoint |-> "get",
     params |-> [n \in {"token"} |-> ClientToken]]

\* ----------------------------------------------------------------- remote
Param(req, n) == IF n \in DOMAIN req.params THEN req.params[n] ELSE ""

RowMatches(row, req) ==
    /\ row.group = req.group
    /\ row.user = Param(req, "user")
    /\ row.device = Param(req, "device")

HasRow(rem, req) == \E i \in 1..Len(rem) : RowMatches(rem[i], req)

\* one existing row after a successful write call
RowAfter(r, req) ==
    IF ~RowMatches(r, req) THEN r
    ELSE CASE req.endpoint = "add_user" ->
                 IF "memo" \in DOMAIN req.params
                 THEN [r EXCEPT !.memo = req.params["memo"]] ELSE r
           [] req.endpoint = "disable_user" -> [r EXCEPT !.disabled = TRUE]
           [] req.endpoint = "enable_user" -> [r EXCEPT !.disabled = FALSE]
           [] OTHER -> r

MapRows(rem, req) == [i \in 1..Len(rem) |-> RowAfter(rem[i], req)]

\* the effect of a successful write call on the remote group
RemoteApply(rem, req) ==
    CASE req.endpoint = "add_user" ->
            IF HasRow(rem, req)
            THEN MapRows(rem, req)
            ELSE Append(rem, [group |-> req.group, user |-> Param(req, "user"),
                              device |-> Param(req, "device"),
                              memo |-> Param(req, "memo"), disabled |-> FALSE])
      [] req.endpoint = "delete_user" ->
            SelectSeq(rem, LAMBDA r : ~RowMatches(r, req))
      [] req.endpoint = "disable_user" ->
            MapRows(rem, req)
      [] req.endpoint = "enable_user" ->
            MapRows(rem, req)
      [] OTHER -> rem

\* GroupResponse.Users of a successful GetGroup
GetGroup(rem, groupKey) ==
    LET rows == SelectSeq(rem, LAMBDA r : r.group = groupKey)
    IN [i \in 1..Len(rows) |->
          [user |-> rows[i].user, device |-> rows[i].device,
           memo |-> rows[i].memo, disabled |-> rows[i].disabled]]

Issued(req, ok) == [req |-> req, ok |-> ok]


Result(st, rem, calls, diags) ==
    [state |-> st, remote |-> rem, calls |-> calls, diags |-> diags]

\* ------------------------------------------------- group-membership resource
Unknown == "<unknown>"

\* faulty variant, for comparison: device declared without RequiresReplace
GroupUserRequiresReplaceNoDevice == {"group_key", "user_key"}

\* attributes whose plan modifier is RequiresReplace
GroupUserRequiresReplace == {"group_key", "user_key", "device"}
GroupUserAttrs == {"group_key", "user_key", "device", "memo", "disabled"}

\* the plan the framework hands to Create/Update for a configuration: the
\* default of disabled is false, id keeps its state value (UseStateForUnknown)
GroupUserPlan(cfg, prior) ==
    [group_key |-> cfg.group_key, user_key |-> cfg.user_key,
     device |-> cfg.device, memo |-> cfg.memo,
     disabled |-> IF cfg.disabled = <<>> THEN BoolValue(FALSE) ELSE cfg.disabled,
     id |-> IF prior = NoState THEN Unknown ELSE prior.id]

GroupUserChanged(plan, prior) == {a \in GroupUserAttrs : plan[a] # prior[a]}

\* what an apply does with a configuration, given the tracked state
GroupUserPlannedAction(cfg, prior) ==
    IF prior = NoState THEN "create"
    ELSE LET changed == GroupUserChanged(GroupUserPlan(cfg, prior), prior)
         IN IF changed \cap GroupUserRequiresReplace # {} THEN "replace"
            ELSE IF changed # {} THEN "update"
            ELSE "noop"

\* faulty variant, for comparison: the device is never appended
ComputeIDNoDevice(groupKey, userKey, device) == groupKey \o "/" \o userKey

ComputeID(groupKey, userKey, device) ==
    IF device # "" THEN groupKey \o "/" \o userKey \o "/" \o device
    ELSE groupKey \o "/" \o userKey

\* faulty variant, for comparison: disable-member is issued whenever disabled is set, true or false
GroupUserCreateDisableUnchecked(plan, rem, failAt) ==
    LET groupKey == ValueString(plan.group_key)
        userKey == ValueString(plan.user_key)
        device == ValueString(plan.device)
        memo == ValueString(plan.memo)
        add == AddGroupUser(groupKey, userKey, device, memo)
        rem1 == RemoteApply(rem, add)
        data == [plan EXCEPT !.id = ComputeID(groupKey, userKey, device)]
        dis == DisableGroupUser(groupKey, userKey, device)
    IN IF failAt = 1
       THEN Result(NoState, rem, <<Issued(add, FALSE)>>,
                   <<"Failed to add user to group">>)
       ELSE IF ~BoolIsNull(data.disabled)
       THEN IF failAt = 2
            THEN Result(NoState, rem1, <<Issued(add, TRUE), Issued(dis, FALSE)>>,
                        <<"Failed to disable group user">>)
            ELSE Result(data, RemoteApply(rem1, dis),
                        <<Issued(add, TRUE), Issued(dis, TRUE)>>, <<>>)
       ELSE Result(data, rem1, <<Issued(add, TRUE)>>, <<>>)

\* faulty variant, for comparison: the disable-member request is sent on a
\* context of its own, so it reaches the remote although the handler's
\* context is already cancelled
GroupUserCreateDetachedDisable(plan, rem, failAt) ==
    LET groupKey == ValueString(plan.group_key)
        userKey == ValueString(plan.user_key)
        device == ValueString(plan.device)
        memo == ValueString(plan.memo)
        add == AddGroupUser(groupKey, userKey, device, memo)
        rem1 == RemoteApply(rem, add)
        data == [plan EXCEPT !.id = ComputeID(groupKey, userKey, device)]
        dis == DisableGroupUser(groupKey, userKey, device)
    IN IF failAt = 1
       THEN Result(NoState, rem, <<Issued(add, FALSE)>>,
                   <<"Failed to add user to group">>)
       ELSE IF ~BoolIsNull(data.disabled) /\ ValueBool(data.disabled)
       THEN IF failAt = 2
            THEN Result(NoState, RemoteApply(rem1, dis),
                        <<Issued(add, TRUE), Issued(dis, FALSE)>>,
                        <<"Failed to disable group user">>)
            ELSE Result(data, RemoteApply(rem1, dis),
                        <<Issued(add, TRUE), Issued(dis, TRUE)>>, <<>>)
       ELSE Result(data, rem1, <<Issued(add, TRUE)>>, <<>>)

\* failAt is the position, among the calls the handler issues, of the call
\* the client reports an error for (0: every call succeeds). The client
\* reports an error for a call that the remote rejects and for a call made
\* after the handler's context was cancelled: every request is built with
\* that context (http.NewRequestWithContext), and httpClient.Do returns the
\* context's error without sending it. Either way the call leaves the remote
\* as it was and the handler returns at once.
GroupUserCreate(plan, rem, failAt) ==
    LET groupKey == ValueString(plan.group_key)
        userKey == ValueString(plan.user_key)
        device == ValueString(plan.device)
        memo == ValueString(plan.memo)
        add == AddGroupUser(groupKey, userKey, device, memo)
        rem1 == RemoteApply(rem, add)
        data == [plan EXCEPT !.id = ComputeID(groupKey, userKey, device)]
        dis == DisableGroupUser(groupKey, userKey, device)
    IN IF failAt = 1
       THEN Result(NoState, rem, <<Issued(add, FALSE)>>,
                   <<"Failed to add user to group">>)
       ELSE IF ~BoolIsNull(data.disabled) /\ ValueBool(data.disabled)
       THEN IF failAt = 2
            THEN Result(NoState, rem1, <<Issued(add, TRUE), Issued(dis, FALSE)>>,
                        <<"Failed to disable group user">>)
            ELSE Result(data, RemoteApply(rem1, dis),
                        <<Issued(add, TRUE), Issued(dis, TRUE)>>, <<>>)
       ELSE Result(data, rem1, <<Issued(add, TRUE)>>, <<>>)

MemberMatches(member, userKey, device) ==
    member.user = userKey /\ (device = "" \/ member.device = device)

\* index of the first matching member of the listing, 0 when there is none
FindMember(users, userKey, device) ==
    IF \E i \in 1..Len(users) : MemberMatches(users[i], userKey, device)
    THEN CHOOSE i \in 1..Len(users) :
            /\ MemberMatches(users[i], userKey, device)
            /\ \A j \in 1..(i - 1) : ~MemberMatches(users[j], userKey, device)
    ELSE 0

\* faulty variant, for comparison: a member missing from the listing is reported as an error
GroupUserReadMissingIsError(data, rem, failAt) ==
    LET groupKey == ValueString(data.group_key)
        userKey == ValueString(data.user_key)
        device == ValueString(data.device)
        get == GetGroupRequest(groupKey)
        users == GetGroup(rem, groupKey)
        i == FindMember(users, userKey, device)
    IN IF failAt = 1
       THEN Result(data, rem, <<Issued(get, FALSE)>>, <<"Failed to read group">>)
       ELSE IF i = 0
       THEN Result(data, rem, <<Issued(get, TRUE)>>, <<"Group user not found">>)
       ELSE Result([data EXCEPT !.disabled = BoolValue(users[i].disabled),
                                !.memo = IF users[i].memo # ""
                                         THEN users[i].memo ELSE @],
                   rem, <<Issued(get, TRUE)>>, <<>>)

\* faulty variant, for comparison: the memo of the row is always recorded
GroupUserReadBlanksMemo(data, rem, failAt) ==
    LET groupKey == ValueString(data.group_key)
        userKey == ValueString(data.user_key)
        device == ValueString(data.device)
        get == GetGroupRequest(groupKey)
        users == GetGroup(rem, groupKey)
        i == FindMember(users, userKey, device)
    IN IF failAt = 1
       THEN Result(data, rem, <<Issued(get, FALSE)>>, <<"Failed to read group">>)
       ELSE IF i = 0
       THEN Result(NoState, rem, <<Issued(get, TRUE)>>, <<>>)
       ELSE Result([data EXCEPT !.disabled = BoolValue(users[i].disabled),
                                !.memo = users[i].memo],
                   rem, <<Issued(get, TRUE)>>, <<>>)

GroupUserRead(data, rem, failAt) ==
    LET groupKey == ValueString(data.group_key)
        userKey == ValueString(data.user_key)
        device == ValueString(data.device)
        get == GetGroupRequest(groupKey)
        users == GetGroup(rem, groupKey)
        i == FindMember(users, userKey, device)
    IN IF failAt = 1
       THEN Result(data, rem, <<Issued(get, FALSE)>>, <<"Failed to read group">>)
       ELSE IF i = 0
       THEN Result(NoState, rem, <<Issued(get, TRUE)>>, <<>>)
       ELSE Result([data EXCEPT !.disabled = BoolValue(users[i].disabled),
                                !.memo = IF users[i].memo # ""
                                         THEN users[i].memo ELSE @],
                   rem, <<Issued(get, TRUE)>>, <<>>)

\* faulty variant, for comparison: add-member is re-issued on every Update
GroupUserUpdateAlwaysAdds(data, state, rem, failAt) ==
    LET groupKey == ValueString(data.group_key)
        userKey == ValueString(data.user_key)
        device == ValueString(data.device)
        memoChanged == TRUE
        add == AddGroupUser(groupKey, userKey, device, ValueString(data.memo))
        addFails == memoChanged /\ failAt = 1
        calls1 == IF memoChanged THEN <<Issued(add, ~addFails)>> ELSE <<>>
        rem1 == IF memoChanged THEN RemoteApply(rem, add) ELSE rem
        toggle == data.disabled # state.disabled
        tog == IF ValueBool(data.disabled)
               THEN DisableGroupUser(groupKey, userKey, device)
               ELSE EnableGroupUser(groupKey, userKey, device)
        togFails == failAt = Len(calls1) + 1
    IN IF addFails
       THEN Result(state, rem, calls1, <<"Failed to update group user memo">>)
       ELSE IF toggle
       THEN IF togFails
            THEN Result(state, rem1, Append(calls1, Issued(tog, FALSE)),
                        <<IF ValueBool(data.disabled)
                          THEN "Failed to disable group user"
                          ELSE "Failed to enable group user">>)
            ELSE Result(data, RemoteApply(rem1, tog),
                        Append(calls1, Issued(tog, TRUE)), <<>>)
       ELSE Result(data, rem1, calls1, <<>>)

\* faulty variant, for comparison: the enable/disable step runs although the
\* memo add-member call failed
GroupUserUpdateContinuesAfterFailure(data, state, rem, failAt) ==
    LET groupKey == ValueString(data.group_key)
        userKey == ValueString(data.user_key)
        device == ValueString(data.device)
        memoChanged == data.memo # state.memo
        add == AddGroupUser(groupKey, userKey, device, ValueString(data.memo))
        addFails == memoChanged /\ failAt = 1
        calls1 == IF memoChanged THEN <<Issued(add, ~addFails)>> ELSE <<>>
        rem1 == IF memoChanged /\ ~addFails THEN RemoteApply(rem, add) ELSE rem
        toggle == data.disabled # state.disabled
        tog == IF ValueBool(data.disabled)
               THEN DisableGroupUser(groupKey, userKey, device)
               ELSE EnableGroupUser(groupKey, userKey, device)
        togFails == ~addFails /\ failAt = Len(calls1) + 1
    IN IF toggle
       THEN IF togFails
            THEN Result(state, rem1, Append(calls1, Issued(tog, FALSE)),
                        <<IF ValueBool(data.disabled)
                          THEN "Failed to disable group user"
                          ELSE "Failed to enable group user">>)
            ELSE Result(IF addFails THEN state ELSE data, RemoteApply(rem1, tog),
                        Append(calls1, Issued(tog, TRUE)),
                        IF addFails THEN <<"Failed to update group user memo">>
                        ELSE <<>>)
       ELSE IF addFails
       THEN Result(state, rem, calls1, <<"Failed to update group user memo">>)
       ELSE Result(data, rem1, calls1, <<>>)

\* faulty variant, for comparison: when the enable/disable call fails after
\* the memo add-member call succeeded, the new memo is recorded
GroupUserUpdateRecordsPartial(data, state, rem, failAt) ==
    LET groupKey == ValueString(data.group_key)
        userKey == ValueString(data.user_key)
        device == ValueString(data.device)
        memoChanged == data.memo # state.memo
        add == AddGroupUser(groupKey, userKey, device, ValueString(data.memo))
        addFails == memoChanged /\ failAt = 1
        calls1 == IF memoChanged THEN <<Issued(add, ~addFails)>> ELSE <<>>
        rem1 == IF memoChanged THEN RemoteApply(rem, add) ELSE rem
        toggle == data.disabled # state.disabled
        tog == IF ValueBool(data.disabled)
               THEN DisableGroupUser(groupKey, userKey, device)
               ELSE EnableGroupUser(groupKey, userKey, device)
        togFails == failAt = Len(calls1) + 1
    IN IF addFails
       THEN Result(state, rem, calls1, <<"Failed to update group user memo">>)
       ELSE IF toggle
       THEN IF togFails
            THEN Result([state EXCEPT !.memo = data.memo], rem1,
                        Append(calls1, Issued(tog, FALSE)),
                        <<IF ValueBool(data.disabled)
                          THEN "Failed to disable group user"
                          ELSE "Failed to enable group user">>)
            ELSE Result(data, RemoteApply(rem1, tog),
                        Append(calls1, Issued(tog, TRUE)), <<>>)
       ELSE Result(data, rem1, calls1, <<>>)

GroupUserUpdate(data, state, rem, failAt) ==
    LET groupKey == ValueString(data.group_key)
        userKey == ValueString(data.user_key)
        device == ValueString(data.device)
        memoChanged == data.memo # state.memo
        add == AddGroupUser(groupKey, userKey, device, ValueString(data.memo))
        addFails == memoChanged /\ failAt = 1
        calls1 == IF memoChanged THEN <<Issued(add, ~addFails)>> ELSE <<>>
        rem1 == IF memoChanged THEN RemoteApply(rem, add) ELSE rem
        toggle == data.disabled # state.disabled
        tog == IF ValueBool(data.disabled)
               THEN DisableGroupUser(groupKey, userKey, device)
               ELSE EnableGroupUser(groupKey, userKey, device)
        togFails == failAt = Len(calls1) + 1
    IN IF addFails
       THEN Result(state, rem, calls1, <<"Failed to update group user memo">>)
       ELSE IF toggle
       THEN IF togFails
            THEN Result(state, rem1, Append(calls1, Issued(tog, FALSE)),
                        <<IF ValueBool(data.disabled)
                          THEN "Failed to disable group user"
                          ELSE "Failed to enable group user">>)
            ELSE Result(data, RemoteApply(rem1, tog),
                        Append(calls1, Issued(tog, TRUE)), <<>>)
       ELSE Result(data, rem1, calls1, <<>>)

\* faulty variant, for comparison: removing a member that is not in the group is a failure
GroupUserDeleteRequiresPresent(data, rem, failAt) ==
    LET groupKey == ValueString(data.group_key)
        userKey == ValueString(data.user_key)
        device == ValueString(data.device)
        del == RemoveGroupUser(groupKey, userKey, device)
    IN IF failAt = 1
       THEN Result(data, rem, <<Issued(del, FALSE)>>,
                   <<"Failed to remove user from group">>)
       ELSE IF ~HasRow(rem, del)
       THEN Result(data, rem, <<Issued(del, TRUE)>>,
                   <<"Failed to remove user from group">>)
       ELSE Result(NoState, RemoteApply(rem, del), <<Issued(del, TRUE)>>, <<>>)

\* the framework removes the state after a Delete that reports no error
GroupUserDelete(data, rem, failAt) ==
    LET groupKey == ValueString(data.group_key)
        userKey == ValueString(data.user_key)
        device == ValueString(data.device)
        del == RemoveGroupUser(groupKey, userKey, device)
    IN IF failAt = 1
       THEN Result(data, rem, <<Issued(del, FALSE)>>,
                   <<"Failed to remove user from group">>)
       ELSE Result(NoState, RemoteApply(rem, del), <<Issued(del, TRUE)>>, <<>>)

\* a replace: Delete of the prior state, then Create of the plan, which runs
\* only when Delete reported no error
GroupUserReplace(plan, state, rem, failAt) ==
    LET d == GroupUserDelete(state, rem, failAt)
        c == GroupUserCreate([plan EXCEPT !.id = Unknown], d.remote,
                             IF failAt = 0 THEN 0 ELSE failAt - 1)
    IN IF d.diags # <<>> THEN d
       ELSE Result(c.state, c.remote, d.calls \o c.calls, c.diags)


\* ------------------------------------------------------ group specification
Groups == {"G1", "G2"}
Users == {"U1", "U2"}
Devices == {Null, "iphone"}
Memos == {Null, "", "lead"}

\* the documented limit of a memo, and a memo one character over it
MemoLimit == 200
LongMemo == Repeat("m", MemoLimit + 1)

\* configurations of the one resource: a base key and the keys that differ
\* from it in the group, in the user or in the device
GroupUserConfigs ==
    {cfg \in [group_key : Groups, user_key : Users, device : Devices,
              memo : Memos, disabled : {<<>>, <<TRUE>>}] :
        \/ cfg.group_key = "G1" /\ cfg.user_key = "U1"
        \/ cfg.group_key = "G1" /\ cfg.device = Null
        \/ cfg.user_key = "U1" /\ cfg.device = Null}
    \cup {[group_key |-> "G1", user_key |-> "U1", device |-> Null,
            memo |-> LongMemo, disabled |-> <<>>]}

\* rows of the group that other parties put there before the provider ran
ForeignRows ==
    [group : {"G1"}, user : {"U1"}, device : {"", "iphone"},
     memo : {"old"}, disabled : BOOLEAN]

RowKey(r) == <<r.group, r.user, r.device>>

\* the remote keeps one row per (group, user, device)
UniqueKeys(rem) ==
    \A i, j \in 1..Len(rem) : RowKey(rem[i]) = RowKey(rem[j]) => i = j

InitialRemotes ==
    {rem \in UNION {[1..n -> ForeignRows] : n \in 0..MaxForeign} : UniqueKeys(rem)}

NoOp == [name |-> "none"]

GroupInit ==
    /\ remote \in InitialRemotes
    /\ gstate = NoState
    /\ gop = NoOp
    /\ gcalls = <<>>
    /\ gdiags = <<>>
    /\ nops = 0
    /\ mstate = NoState
    /\ mop = NoOp
    /\ mcalls = <<>>
    /\ mdiags = <<>>
    /\ cop = NoOp
    /\ cres = NoOp
    /\ client = <<NewClient(ClientToken)>>

\* failAt names a call the handler did issue
GroupDone(name, cfg, failAt, res) ==
    /\ IF failAt = 0 THEN TRUE
       ELSE IF failAt <= Len(res.calls) THEN ~res.calls[failAt].ok ELSE FALSE
    /\ gop' = [name |-> name, cfg |-> cfg, failAt |-> failAt,
               prior |-> gstate, before |-> remote]
    /\ gstate' = res.state
    /\ remote' = res.remote
    /\ gcalls' = res.calls
    /\ gdiags' = res.diags
    /\ nops' = nops + 1
    /\ UNCHANGED <<mvars, cvars>>

NoConfig == [null |-> TRUE]

\* terraform apply of a configuration for a resource that has no state
GroupApplyCreate ==
    \E cfg \in GroupUserConfigs, failAt \in 0..2 :
        /\ nops < MaxOps
        /\ GroupUserPlannedAction(cfg, gstate) = "create"
        /\ GroupDone("create", cfg, failAt,
                     GroupUserCreate(GroupUserPlan(cfg, gstate), remote, failAt))

\* terraform apply of a configuration that differs in mutable attributes only
GroupApplyUpdate ==
    \E cfg \in GroupUserConfigs, failAt \in 0..2 :
        /\ nops < MaxOps
        /\ GroupUserPlannedAction(cfg, gstate) = "update"
        /\ GroupDone("update", cfg, failAt,
                     GroupUserUpdate(GroupUserPlan(cfg, gstate), gstate, remote, failAt))

\* terraform apply of a configuration that differs in a RequiresReplace attribute
GroupApplyReplace ==
    \E cfg \in GroupUserConfigs, failAt \in 0..3 :
        /\ nops < MaxOps
        /\ GroupUserPlannedAction(cfg, gstate) = "replace"
        /\ GroupDone("replace", cfg, failAt,
                     GroupUserReplace(GroupUserPlan(cfg, gstate), gstate, remote, failAt))

\* terraform refresh
GroupRefresh ==
    \E failAt \in 0..1 :
        /\ nops < MaxOps
        /\ gstate # NoState
        /\ GroupDone("read", NoConfig, failAt, GroupUserRead(gstate, remote, failAt))

\* terraform destroy
GroupDestroy ==
    \E failAt \in 0..1 :
        /\ nops < MaxOps
        /\ gstate # NoState
        /\ GroupDone("delete", NoConfig, failAt, GroupUserDelete(gstate, remote, failAt))

\* another party removes a member from the group
RemoteDrift ==
    \E i \in 1..Len(remote) :
        /\ gop.name # "none"
        /\ remote' = [j \in 1..(Len(remote) - 1) |->
                         IF j < i THEN remote[j] ELSE remote[j + 1]]
        /\ gop' = [name |-> "drift"]
            /\ gcalls' = <<>>
        /\ gdiags' = <<>>
        /\ UNCHANGED <<gstate, nops>>
        /\ UNCHANGED <<mvars, cvars>>

GroupNext ==
    \/ GroupApplyCreate
    \/ GroupApplyUpdate
    \/ GroupApplyReplace
    \/ GroupRefresh
    \/ GroupDestroy
    \/ RemoteDrift

SpecGroup == GroupInit /\ [][GroupNext]_vars


\* --------------------------------------------------------- message resource
\* a types.Int64 is <<>> (null) or <<n>>
IntIsNull(n) == n = <<>>
ValueInt64(n) == IF n = <<>> THEN 0 ELSE n[1]

MessageAttrs ==
    {"user_key", "message", "api_token", "title", "url", "url_title", "priority",
     "sound", "device", "timestamp", "html", "monospace", "ttl", "retry",
     "expire", "callback"}

\* attributes whose plan modifier is RequiresReplace
MessageRequiresReplace ==
    {"user_key", "message", "api_token", "title", "url", "url_title", "sound",
     "device", "callback"}

\* the plan of a configuration: priority defaults to 0, the computed
\* receipt and request_id keep their state values (UseStateForUnknown)
MessagePlan(cfg, prior) ==
    [a \in MessageAttrs \cup {"receipt", "request_id"} |->
        CASE a = "priority" -> IF cfg.priority = <<>> THEN <<0>> ELSE cfg.priority
          [] a \in {"receipt", "request_id"} ->
                IF prior = NoState THEN Unknown ELSE prior[a]
          [] OTHER -> cfg[a]]

MessageChanged(plan, prior) == {a \in MessageAttrs : plan[a] # prior[a]}

MessagePlannedAction(cfg, prior) ==
    IF prior = NoState THEN "create"
    ELSE LET changed == MessageChanged(MessagePlan(cfg, prior), prior)
         IN IF changed \cap MessageRequiresReplace # {} THEN "replace"
            ELSE IF changed # {} THEN "update"
            ELSE "noop"

\* the attributes that carry a validator, in schema order
ValidatedAttrs ==
    <<"message", "title", "url", "url_title", "priority", "ttl", "retry", "expire">>

\* faulty variant, for comparison: retry carries no validator
MessageInvalidNoRetry(cfg, a) ==
    CASE a = "message" -> ~IsNull(cfg[a]) /\ ~(Len(cfg[a]) >= 1 /\ Len(cfg[a]) <= 1024)
      [] a = "title" -> ~IsNull(cfg[a]) /\ ~(Len(cfg[a]) <= 250)
      [] a = "url" -> ~IsNull(cfg[a]) /\ ~(Len(cfg[a]) <= 512)
      [] a = "url_title" -> ~IsNull(cfg[a]) /\ ~(Len(cfg[a]) <= 100)
      [] a = "priority" -> ~IntIsNull(cfg[a]) /\ ~(cfg[a][1] >= -2 /\ cfg[a][1] <= 2)
      [] a = "ttl" -> ~IntIsNull(cfg[a]) /\ ~(cfg[a][1] >= 1)
      [] a = "expire" -> ~IntIsNull(cfg[a]) /\ ~(cfg[a][1] >= 1 /\ cfg[a][1] <= 10800)
      [] OTHER -> FALSE

\* the validator of attribute a rejects the configured value: LengthBetween,
\* LengthAtMost, Between and AtLeast; a null value is not validated
MessageInvalid(cfg, a) ==
    CASE a = "message" -> ~IsNull(cfg[a]) /\ ~(Len(cfg[a]) >= 1 /\ Len(cfg[a]) <= 1024)
      [] a = "title" -> ~IsNull(cfg[a]) /\ ~(Len(cfg[a]) <= 250)
      [] a = "url" -> ~IsNull(cfg[a]) /\ ~(Len(cfg[a]) <= 512)
      [] a = "url_title" -> ~IsNull(cfg[a]) /\ ~(Len(cfg[a]) <= 100)
      [] a = "priority" -> ~IntIsNull(cfg[a]) /\ ~(cfg[a][1] >= -2 /\ cfg[a][1] <= 2)
      [] a = "ttl" -> ~IntIsNull(cfg[a]) /\ ~(cfg[a][1] >= 1)
      [] a = "retry" -> ~IntIsNull(cfg[a]) /\ ~(cfg[a][1] >= 30)
      [] a = "expire" -> ~IntIsNull(cfg[a]) /\ ~(cfg[a][1] >= 1 /\ cfg[a][1] <= 10800)
      [] OTHER -> FALSE

\* the diagnostics of validating a configuration, before any plan is made
MessageValidate(cfg) ==
    LET bad == SelectSeq(ValidatedAttrs, LAMBDA a : MessageInvalid(cfg, a))
    IN [i \in 1..Len(bad) |-> "Invalid Attribute Value: " \o bad[i]]

\* the MessageRequest that Create fills in; a field left alone is zero
MessageRequestOf(data) ==
    LET priority == IF ~IntIsNull(data.priority) THEN ValueInt64(data.priority) ELSE 0
        emergency == priority = 2
    IN [Token |-> IF ~IsNull(data.api_token) /\ data.api_token # Unknown
                  THEN ValueString(data.api_token) ELSE "",
        User |-> ValueString(data.user_key),
        Message |-> ValueString(data.message),
        Title |-> IF ~IsNull(data.title) THEN ValueString(data.title) ELSE "",
        URL |-> IF ~IsNull(data.url) THEN ValueString(data.url) ELSE "",
        URLTitle |-> IF ~IsNull(data.url_title) THEN ValueString(data.url_title) ELSE "",
        Priority |-> priority,
        Sound |-> IF ~IsNull(data.sound) THEN ValueString(data.sound) ELSE "",
        Device |-> IF ~IsNull(data.device) THEN ValueString(data.device) ELSE "",
        Timestamp |-> IF ~IntIsNull(data.timestamp) THEN ValueInt64(data.timestamp) ELSE 0,
        HTML |-> IF ~BoolIsNull(data.html) /\ ValueBool(data.html) THEN 1 ELSE 0,
        Monospace |-> IF ~BoolIsNull(data.monospace) /\ ValueBool(data.monospace)
                      THEN 1 ELSE 0,
        TTL |-> IF ~IntIsNull(data.ttl) THEN ValueInt64(data.ttl) ELSE 0,
        Retry |-> IF emergency THEN ValueInt64(data.retry) ELSE 0,
        Expire |-> IF emergency THEN ValueInt64(data.expire) ELSE 0,
        Callback |-> IF emergency /\ ~IsNull(data.callback)
                     THEN ValueString(data.callback) ELSE ""]

\* faulty variant, for comparison: a priority of 0 is omitted like the other
\* zero-valued numbers
SendMessageParamsOmitsZeroPriority(token, req) ==
    LET names == {"token", "user", "message"}
            \cup (IF req.Priority # 0 THEN {"priority"} ELSE {})
            \cup (IF req.Title # "" THEN {"title"} ELSE {})
            \cup (IF req.URL # "" THEN {"url"} ELSE {})
            \cup (IF req.URLTitle # "" THEN {"url_title"} ELSE {})
            \cup (IF req.Sound # "" THEN {"sound"} ELSE {})
            \cup (IF req.Device # "" THEN {"device"} ELSE {})
            \cup (IF req.Timestamp # 0 THEN {"timestamp"} ELSE {})
            \cup (IF req.HTML # 0 THEN {"html"} ELSE {})
            \cup (IF req.Monospace # 0 THEN {"monospace"} ELSE {})
            \cup (IF req.TTL # 0 THEN {"ttl"} ELSE {})
            \cup (IF req.Priority = 2 THEN {"retry", "expire"} ELSE {})
            \cup (IF req.Priority = 2 /\ req.Callback # "" THEN {"callback"} ELSE {})
    IN [n \in names |->
          CASE n = "token" -> IF req.Token = "" THEN token ELSE req.Token
            [] n = "user" -> req.User
            [] n = "message" -> req.Message
            [] n = "title" -> req.Title
            [] n = "url" -> req.URL
            [] n = "url_title" -> req.URLTitle
            [] n = "priority" -> ToString(req.Priority)
            [] n = "sound" -> req.Sound
            [] n = "device" -> req.Device
            [] n = "timestamp" -> ToString(req.Timestamp)
            [] n = "html" -> ToString(req.HTML)
            [] n = "monospace" -> ToString(req.Monospace)
            [] n = "ttl" -> ToString(req.TTL)
            [] n = "retry" -> ToString(req.Retry)
            [] n = "expire" -> ToString(req.Expire)
            [] n = "callback" -> req.Callback]

\* url.Values of SendMessage: numbers are sent as decimal strings
SendMessageParams(token, req) ==
    LET names == {"token", "user", "message", "priority"}
            \cup (IF req.Title # "" THEN {"title"} ELSE {})
            \cup (IF req.URL # "" THEN {"url"} ELSE {})
            \cup (IF req.URLTitle # "" THEN {"url_title"} ELSE {})
            \cup (IF req.Sound # "" THEN {"sound"} ELSE {})
            \cup (IF req.Device # "" THEN {"device"} ELSE {})
            \cup (IF req.Timestamp # 0 THEN {"timestamp"} ELSE {})
            \cup (IF req.HTML # 0 THEN {"html"} ELSE {})
            \cup (IF req.Monospace # 0 THEN {"monospace"} ELSE {})
            \cup (IF req.TTL # 0 THEN {"ttl"} ELSE {})
            \cup (IF req.Priority = 2 THEN {"retry", "expire"} ELSE {})
            \cup (IF req.Priority = 2 /\ req.Callback # "" THEN {"callback"} ELSE {})
    IN [n \in names |->
          CASE n = "token" -> IF req.Token = "" THEN token ELSE req.Token
            [] n = "user" -> req.User
            [] n = "message" -> req.Message
            [] n = "title" -> req.Title
            [] n = "url" -> req.URL
            [] n = "url_title" -> req.URLTitle
            [] n = "priority" -> ToString(req.Priority)
            [] n = "sound" -> req.Sound
            [] n = "device" -> req.Device
            [] n = "timestamp" -> ToString(req.Timestamp)
            [] n = "html" -> ToString(req.HTML)
            [] n = "monospace" -> ToString(req.Monospace)
            [] n = "ttl" -> ToString(req.TTL)
            [] n = "retry" -> ToString(req.Retry)
            [] n = "expire" -> ToString(req.Expire)
            [] n = "callback" -> req.Callback]

SendMessage(token, req) ==
    [method |-> "POST", endpoint |-> "messages", params |-> SendMessageParams(token, req)]

\* faulty variant, for comparison: the emergency check fires only when retry and expire are both unset
MessageCreateBothMissing(data, reply) ==
    LET msgReq == MessageRequestOf(data)
        send == SendMessage(ClientToken, msgReq)
    IN IF msgReq.Priority = 2 /\ (IntIsNull(data.retry) /\ IntIsNull(data.expire))
       THEN Result(NoState, remote, <<>>, <<"Missing Emergency Fields">>)
       ELSE IF ~reply.ok
       THEN Result(NoState, remote, <<Issued(send, FALSE)>>,
                   <<"Failed to send Pushover message">>)
       ELSE Result([data EXCEPT !.receipt = reply.receipt,
                                !.request_id = reply.request],
                   remote, <<Issued(send, TRUE)>>, <<>>)

\* reply is what the client returns for the send: ok (no error), and the
\* request and receipt fields of the MessageResponse
MessageCreate(data, reply) ==
    LET msgReq == MessageRequestOf(data)
        send == SendMessage(ClientToken, msgReq)
    IN IF msgReq.Priority = 2 /\ (IntIsNull(data.retry) \/ IntIsNull(data.expire))
       THEN Result(NoState, remote, <<>>, <<"Missing Emergency Fields">>)
       ELSE IF ~reply.ok
       THEN Result(NoState, remote, <<Issued(send, FALSE)>>,
                   <<"Failed to send Pushover message">>)
       ELSE Result([data EXCEPT !.receipt = reply.receipt,
                                !.request_id = reply.request],
                   remote, <<Issued(send, TRUE)>>, <<>>)

\* faulty variant, for comparison: Read sends the recorded message again
MessageReadResends(state) ==
    Result(state, remote,
           <<Issued(SendMessage(ClientToken, MessageRequestOf(state)), TRUE)>>, <<>>)

\* Read, Update and Delete have empty bodies: the framework keeps the state
\* it handed in for Read and Update and removes it after Delete
MessageRead(state) == Result(state, remote, <<>>, <<>>)
MessageUpdate(data, state) == Result(state, remote, <<>>, <<>>)
MessageDelete(state) == Result(NoState, remote, <<>>, <<>>)

MessageReplace(data, state, reply) ==
    LET d == MessageDelete(state)
        c == MessageCreate([data EXCEPT !.receipt = Unknown, !.request_id = Unknown],
                           reply)
    IN Result(c.state, remote, d.calls \o c.calls, c.diags)

\* ------------------------------------------------ group-membership claims
\* the value the last apply asked for in attribute a
Desired(a) ==
    IF a = "disabled" THEN <<gop.cfg.disabled = <<TRUE>>>> ELSE gop.cfg[a]

\* the last apply changed attribute a and nothing else
OnlyChanged(a) ==
    \A b \in GroupUserAttrs : (Desired(b) # gop.prior[b]) <=> (b = a)

\* the call targets the natural key (g, u, d), d = "" for no device
Targets(call, endpoint, g, u, d) ==
    /\ call.req.endpoint = endpoint
    /\ call.req.group = g
    /\ Param(call.req, "user") = u
    /\ Param(call.req, "device") = d

IsWrite(call) ==
    call.req.endpoint \in {"add_user", "delete_user", "enable_user", "disable_user"}

\* C3: a change to only group_key, only user_key or only device is a replace
\* (remove-member for the old key, then add-member for the new key and a newly
\* computed id); a change to only memo or only disabled is an in-place Update
\* with no remove-member call and an unchanged id.
C3_ReplaceOrUpdate ==
    gop.name \in {"update", "replace"} =>
        /\ \A a \in {"group_key", "user_key", "device"} : OnlyChanged(a) =>
              /\ gop.name = "replace"
              /\ Targets(gcalls[1], "delete_user", gop.prior.group_key,
                         gop.prior.user_key, ValueString(gop.prior.device))
              /\ gcalls[1].ok =>
                    /\ Len(gcalls) >= 2
                    /\ Targets(gcalls[2], "add_user", gop.cfg.group_key,
                               gop.cfg.user_key, ValueString(gop.cfg.device))
              /\ gdiags = <<>> =>
                    /\ gstate # NoState
                    /\ gstate.id # gop.prior.id
                    /\ gstate[a] = gop.cfg[a]
        /\ \A a \in {"memo", "disabled"} : OnlyChanged(a) =>
              /\ gop.name = "update"
              /\ \A i \in 1..Len(gcalls) : gcalls[i].req.endpoint # "delete_user"
              /\ gstate # NoState
              /\ gstate.id = gop.prior.id

C3_Witness ==
    /\ gop.name = "replace"
    /\ OnlyChanged("device")
    /\ gdiags = <<>>
    /\ Len(gcalls) = 2

\* a row of the listing that Read's scan accepts for the entity
ReadMatch ==
    \E i \in 1..Len(gop.before) :
        /\ gop.before[i].group = gop.prior.group_key
        /\ gop.before[i].user = gop.prior.user_key
        /\ \/ ValueString(gop.prior.device) = ""
           \/ gop.before[i].device = gop.prior.device

ReadFound == gcalls[1].ok /\ ReadMatch /\ gstate # NoState /\ gdiags = <<>>
ReadNotFound == gcalls[1].ok /\ ~ReadMatch /\ gstate = NoState /\ gdiags = <<>>
ReadError == ~gcalls[1].ok /\ gdiags # <<>> /\ gstate = gop.prior

\* C4: Read ends Found (state kept), NotFound (state removed, no error) or
\* ReadError (error, state kept as it was), and issues no write call.
C4_ReadOutcomes ==
    gop.name = "read" =>
        /\ ReadFound \/ ReadNotFound \/ ReadError
        /\ Len(gcalls) = 1
        /\ gcalls[1].req.method = "GET"
        /\ ~IsWrite(gcalls[1])
        /\ remote = gop.before

C4_Witness == gop.name = "read" /\ ReadNotFound

\* C5: Read finds the entity only through a row whose user is the entity's
\* member and whose device is the entity's device (exact, or absent on both
\* sides), and observes that row's disabled flag.
C5_ExactDeviceMatch ==
    (gop.name = "read" /\ gcalls[1].ok /\ gstate # NoState) =>
        \E i \in 1..Len(gop.before) :
            /\ gop.before[i].group = gop.prior.group_key
            /\ gop.before[i].user = gop.prior.user_key
            /\ gop.before[i].device = ValueString(gop.prior.device)
            /\ gstate.disabled = <<gop.before[i].disabled>>

\* the natural key of the last apply's configuration is a row of rem
KeyIn(rem) ==
    \E i \in 1..Len(rem) :
        /\ rem[i].group = gop.cfg.group_key
        /\ rem[i].user = gop.cfg.user_key
        /\ rem[i].device = ValueString(gop.cfg.device)

\* C6: a Read right after a successful Create of a key that was not in the
\* group reports Found with the disabled flag and the non-empty memo that
\* Create was given.
C6_ReadAfterCreate ==
    [][(/\ gop.name = "create"
        /\ gstate # NoState
        /\ ~KeyIn(gop.before)
        /\ gop'.name = "read"
        /\ gcalls'[1].ok)
       => (/\ gstate' # NoState
           /\ gstate'.disabled = Desired("disabled")
           /\ ValueString(gop.cfg.memo) # "" => gstate'.memo = gop.cfg.memo)]_vars

\* C7: a successful Create records group_key/user_key, with /device appended
\* when the device is not empty, and Read and Update keep the identifier.
C7_Identifier ==
    /\ (gop.name \in {"create", "replace"} /\ gdiags = <<>>) =>
          gstate.id = IF ValueString(gop.cfg.device) = ""
                      THEN gop.cfg.group_key \o "/" \o gop.cfg.user_key
                      ELSE gop.cfg.group_key \o "/" \o gop.cfg.user_key
                              \o "/" \o gop.cfg.device
    /\ (gop.name \in {"read", "update"} /\ gstate # NoState) =>
          gstate.id = gop.prior.id

C7_Witness ==
    /\ gop.name = "read"
    /\ gstate # NoState
    /\ gstate.id = "G1/U1/iphone"

\* C9: Create issues add-member first, then disable-member exactly when
\* disabled is desired and add-member succeeded, never enable-member or
\* remove-member; a failed add-member ends Create with no state recorded.
C9_CreateCallOrder ==
    gop.name = "create" =>
        /\ Len(gcalls) >= 1
        /\ Targets(gcalls[1], "add_user", gop.cfg.group_key, gop.cfg.user_key,
                   ValueString(gop.cfg.device))
        /\ (Len(gcalls) = 2) <=> (gop.cfg.disabled = <<TRUE>> /\ gcalls[1].ok)
        /\ Len(gcalls) <= 2
        /\ Len(gcalls) = 2 =>
              Targets(gcalls[2], "disable_user", gop.cfg.group_key,
                      gop.cfg.user_key, ValueString(gop.cfg.device))
        /\ ~gcalls[1].ok => gstate = NoState /\ remote = gop.before

C9_Witness ==
    /\ gop.name = "create"
    /\ Len(gcalls) = 2
    /\ gcalls[1].ok
    /\ gcalls[2].ok

\* C10: when add-member succeeded and disable-member failed, Create reports a
\* failure other than the add-member failure and the entity stays tracked.
C10_PartialCreateTracked ==
    (gop.name = "create" /\ Len(gcalls) = 2 /\ gcalls[1].ok /\ ~gcalls[2].ok) =>
        /\ gdiags # <<>>
        /\ gdiags # <<"Failed to add user to group">>
        /\ gstate # NoState

\* number of calls the last operation issued to an endpoint
CallsTo(endpoint) ==
    Cardinality({i \in 1..Len(gcalls) : gcalls[i].req.endpoint = endpoint})

\* C11: an Update none of whose calls fails issues one add-member exactly when
\* the desired memo differs from the prior one, one disable-member exactly
\* when disabled changes to true, one enable-member exactly when it changes to
\* false, and nothing else; every call addresses the entity's natural key.
C11_UpdateCalls ==
    (gop.name = "update" /\ gop.failAt = 0) =>
        /\ CallsTo("add_user") = IF Desired("memo") # gop.prior.memo THEN 1 ELSE 0
        /\ CallsTo("disable_user") =
              IF Desired("disabled") # gop.prior.disabled /\ Desired("disabled") = <<TRUE>>
              THEN 1 ELSE 0
        /\ CallsTo("enable_user") =
              IF Desired("disabled") # gop.prior.disabled /\ Desired("disabled") = <<FALSE>>
              THEN 1 ELSE 0
        /\ Len(gcalls) = CallsTo("add_user") + CallsTo("disable_user")
                             + CallsTo("enable_user")
        /\ \A i \in 1..Len(gcalls) :
              /\ gcalls[i].ok
              /\ Targets(gcalls[i], gcalls[i].req.endpoint, gop.cfg.group_key,
                         gop.cfg.user_key, ValueString(gop.cfg.device))

C11_Witness ==
    /\ gop.name = "update"
    /\ gop.failAt = 0
    /\ Len(gcalls) = 2
    /\ gcalls[1].req.endpoint = "add_user"
    /\ gcalls[2].req.endpoint = "enable_user"

\* C12: after a Delete that succeeded, a Read of the deleted entity's natural
\* key against the remote group as Delete left it reports the entity absent.
C12_ReadAfterDelete ==
    (gop.name = "delete" /\ gdiags = <<>>) =>
        GroupUserRead(gop.prior, remote, 0).state = NoState

\* the row of the natural key of the last apply's configuration, in rem
KeyRows(rem) ==
    {i \in 1..Len(rem) :
        /\ rem[i].group = gop.cfg.group_key
        /\ rem[i].user = gop.cfg.user_key
        /\ rem[i].device = ValueString(gop.cfg.device)}

\* C13: an Update that changes the memo to m issues an add-member request
\* that carries memo = m, empty or not, and the remote memo becomes m.
C13_UpdateMemoCarried ==
    (gop.name = "update" /\ Desired("memo") # gop.prior.memo) =>
        /\ Len(gcalls) >= 1
        /\ gcalls[1].req.endpoint = "add_user"
        /\ "memo" \in DOMAIN gcalls[1].req.params
        /\ Param(gcalls[1].req, "memo") = ValueString(gop.cfg.memo)
        /\ gcalls[1].ok =>
              \A i \in KeyRows(remote) : remote[i].memo = ValueString(gop.cfg.memo)

\* the natural key of the entity the last operation was given is a row of rem
PriorKeyIn(rem) ==
    \E i \in 1..Len(rem) :
        /\ rem[i].group = gop.prior.group_key
        /\ rem[i].user = gop.prior.user_key
        /\ rem[i].device = ValueString(gop.prior.device)

\* C14: Delete issues exactly one remove-member call for the entity's natural
\* key; its outcome follows from that call's result alone, whether or not the
\* member was in the group: success removes the entity from the tracked state,
\* failure keeps it and reports an error.
C14_DeleteIdempotent ==
    gop.name = "delete" =>
        /\ Len(gcalls) = 1
        /\ Targets(gcalls[1], "delete_user", gop.prior.group_key,
                   gop.prior.user_key, ValueString(gop.prior.device))
        /\ gcalls[1].ok =>
              /\ gstate = NoState
              /\ gdiags = <<>>
              /\ ~PriorKeyIn(remote)
        /\ ~gcalls[1].ok =>
              /\ gstate = gop.prior
              /\ gdiags # <<>>
              /\ remote = gop.before

C14_Witness ==
    /\ gop.name = "delete"
    /\ gcalls[1].ok
    /\ ~PriorKeyIn(gop.before)
    /\ gstate = NoState

\* C18: an apply whose memo is longer than the limit is rejected with an
\* error and issues no add-member call.
C18_LongMemoRejected ==
    (/\ gop.name \in {"create", "update", "replace"}
     /\ Len(ValueString(gop.cfg.memo)) > MemoLimit) =>
        /\ CallsTo("add_user") = 0
        /\ gdiags # <<>>

ReadAccepts(i) ==
    /\ gop.before[i].group = gop.prior.group_key
    /\ gop.before[i].user = gop.prior.user_key
    /\ \/ ValueString(gop.prior.device) = ""
       \/ gop.before[i].device = gop.prior.device

\* the row the scan stops at: the first one it accepts
ReadRow ==
    gop.before[CHOOSE i \in 1..Len(gop.before) :
                  ReadAccepts(i) /\ \A j \in 1..(i - 1) : ~ReadAccepts(j)]

C28_CreateSetsDisabled ==
    (gop.name = "create" /\ gdiags = <<>>) =>
        /\ KeyRows(remote) # {}
        /\ \A i \in KeyRows(remote) : BoolValue(remote[i].disabled) = Desired("disabled")
        /\ GroupUserRead(gstate, remote, 0).state # NoState
        /\ GroupUserRead(gstate, remote, 0).state.disabled = gstate.disabled


\* the Update that an apply of the same configuration runs next, when every
\* call of it succeeds
NextUpdate ==
    GroupUserUpdate(GroupUserPlan(gop.cfg, gstate), gstate, remote, 0)

\* C29: an Update in which a remote call failed leaves the tracked state as
\* it was before the Update, also when the memo add-member call succeeded
\* and the enable/disable call failed; the next apply of the same
\* configuration is again an Update, and when the failed Update had issued
\* the memo add-member call, that Update issues the same call again.
C29_FailedUpdateKeepsState ==
    (gop.name = "update" /\ gdiags # <<>>) =>
        /\ gstate = gop.prior
        /\ GroupUserPlannedAction(gop.cfg, gstate) = "update"
        /\ gcalls[1].req.endpoint = "add_user" =>
               /\ NextUpdate.calls # <<>>
               /\ NextUpdate.calls[1].req = gcalls[1].req

\* the memo add-member call succeeded and the enable/disable call failed
C29_Witness ==
    /\ gop.name = "update" /\ gdiags # <<>>
    /\ Len(gcalls) = 2 /\ gcalls[1].ok /\ ~gcalls[2].ok
    /\ remote # gop.before
    /\ gstate = gop.prior


\* the write calls a reconciliation of another entity of the same group can
\* issue: an entity whose (user, device) differs from that of data
OtherEntityCalls(data) ==
    LET g == ValueString(data.group_key)
        others == {k \in Users \X {"", "iphone"} :
                      k # <<ValueString(data.user_key), ValueString(data.device)>>}
    IN UNION {{AddGroupUser(g, k[1], k[2], "other"), RemoveGroupUser(g, k[1], k[2]),
               EnableGroupUser(g, k[1], k[2]), DisableGroupUser(g, k[1], k[2])} :
                 k \in others}

\* C25: reconciliations of two entities of one group with distinct natural
\* keys are independent: what a Read of the tracked entity finds and records
\* is the same whether or not a step of the other entity's reconciliation
\* ran just before it.
C25_EntitiesIndependent ==
    gstate # NoState =>
        \A req \in OtherEntityCalls(gstate) :
            GroupUserRead(gstate, RemoteApply(remote, req), 0).state
                = GroupUserRead(gstate, remote, 0).state





\* ---------------------------------------------------- message specification
\* a plain message and an emergency message
PlainMessage ==
    [a \in MessageAttrs |->
        CASE a = "user_key" -> "u1"
          [] a = "message" -> "hello"
          [] a \in {"priority", "timestamp", "html", "monospace", "ttl",
                    "retry", "expire"} -> <<>>
          [] OTHER -> Null]

EmergencyMessage ==
    [PlainMessage EXCEPT !["priority"] = <<2>>, !["retry"] = <<60>>,
                         !["expire"] = <<3600>>]

\* the values a configuration may give to attribute a
MessageValues(a) ==
    CASE a = "user_key" -> {"u1", "u2"}
      [] a = "message" -> {"hello", "bye"}
      [] a = "api_token" -> {Null, "tok2"}
      [] a = "title" -> {Null, "Title"}
      [] a = "url" -> {Null, "https://example.com"}
      [] a = "url_title" -> {Null, "Click"}
      [] a = "priority" -> {<<>>} \cup {<<n>> : n \in -2..2}
      [] a = "sound" -> {Null, "siren"}
      [] a = "device" -> {Null, "iphone"}
      [] a = "timestamp" -> {<<>>, <<1700000000>>}
      [] a = "html" -> {<<>>, <<TRUE>>}
      [] a = "monospace" -> {<<>>, <<TRUE>>}
      [] a = "ttl" -> {<<>>, <<3600>>}
      [] a = "retry" -> {<<>>, <<60>>}
      [] a = "expire" -> {<<>>, <<3600>>}
      [] a = "callback" -> {Null, "https://ops.example.com/ack"}

\* the configurations that differ from c in at most one attribute
OneChange(c) ==
    {c} \cup UNION {{[c EXCEPT ![a] = v] : v \in MessageValues(a)} : a \in MessageAttrs}

\* values at and just outside the limits of the validators
MessageEdgeValues(a) ==
    CASE a = "message" -> {"", Repeat("m", 1024), Repeat("m", 1025)}
      [] a = "title" -> {Repeat("t", 251)}
      [] a = "url" -> {Repeat("u", 513)}
      [] a = "url_title" -> {Repeat("c", 101)}
      [] a = "priority" -> {<<-3>>, <<3>>}
      [] a = "ttl" -> {<<0>>}
      [] a = "retry" -> {<<10>>, <<29>>, <<30>>}
      [] a = "expire" -> {<<0>>, <<10800>>, <<10801>>}
      [] OTHER -> {}

EdgeChange(c) ==
    UNION {{[c EXCEPT ![a] = v] : v \in MessageEdgeValues(a)} : a \in MessageAttrs}

\* the changes of an emergency message in the attributes that only matter
\* at emergency priority
EmergencyChange(c) ==
    {c} \cup UNION {{[c EXCEPT ![a] = v] : v \in MessageValues(a)} :
                        a \in {"priority", "retry", "expire", "callback"}}

MessageConfigs ==
    OneChange(PlainMessage) \cup EmergencyChange(EmergencyMessage)
        \cup EdgeChange(EmergencyMessage)

NoReply == [null |-> TRUE]

MessageReplies ==
    {[ok |-> FALSE, request |-> "", receipt |-> ""]}
        \cup [ok : {TRUE}, request : {"req-1"}, receipt : {"", "rcpt-1"}]

MessageInit ==
    /\ remote = <<>>
    /\ gstate = NoState
    /\ gop = NoOp
    /\ gcalls = <<>>
    /\ gdiags = <<>>
    /\ nops = 0
    /\ mstate = NoState
    /\ mop = NoOp
    /\ mcalls = <<>>
    /\ mdiags = <<>>
    /\ cop = NoOp
    /\ cres = NoOp
    /\ client = <<NewClient(ClientToken)>>

MessageDone(name, cfg, reply, res) ==
    /\ mop' = [name |-> name, cfg |-> cfg, prior |-> mstate, reply |-> reply]
    /\ mstate' = res.state
    /\ mcalls' = res.calls
    /\ mdiags' = res.diags
    /\ UNCHANGED <<gvars, cvars>>

MessageApplyCreate ==
    \E cfg \in MessageConfigs, reply \in MessageReplies :
        /\ MessageValidate(cfg) = <<>>
        /\ MessagePlannedAction(cfg, mstate) = "create"
        /\ MessageDone("create", cfg, reply,
                       MessageCreate(MessagePlan(cfg, mstate), reply))

MessageApplyUpdate ==
    \E cfg \in MessageConfigs :
        /\ MessageValidate(cfg) = <<>>
        /\ MessagePlannedAction(cfg, mstate) = "update"
        /\ MessageDone("update", cfg, NoReply,
                       MessageUpdate(MessagePlan(cfg, mstate), mstate))

MessageApplyReplace ==
    \E cfg \in MessageConfigs, reply \in MessageReplies :
        /\ MessageValidate(cfg) = <<>>
        /\ MessagePlannedAction(cfg, mstate) = "replace"
        /\ MessageDone("replace", cfg, reply,
                       MessageReplace(MessagePlan(cfg, mstate), mstate, reply))

MessageRefresh ==
    /\ mstate # NoState
    /\ MessageDone("read", NoConfig, NoReply, MessageRead(mstate))

MessageDestroy ==
    /\ mstate # NoState
    /\ MessageDone("delete", NoConfig, NoReply, MessageDelete(mstate))

\* terraform apply of a configuration that a validator rejects: no plan is
\* made and no handler of the resource runs
MessageApplyRejected ==
    \E cfg \in MessageConfigs :
        /\ MessageValidate(cfg) # <<>>
        /\ MessageDone("rejected", cfg, NoReply,
                       Result(mstate, remote, <<>>, MessageValidate(cfg)))

MessageNext ==
    \/ MessageApplyRejected
    \/ MessageApplyCreate
    \/ MessageApplyUpdate
    \/ MessageApplyReplace
    \/ MessageRefresh
    \/ MessageDestroy

SpecMessage == MessageInit /\ [][MessageNext]_vars

\* ----------------------------------------------------------- message claims
Range(seq) == {seq[i] : i \in 1..Len(seq)}

\* the value the last message apply asked for in attribute a
MessageDesired(a) ==
    IF a = "priority" /\ mop.cfg[a] = <<>> THEN <<0>> ELSE mop.cfg[a]

MessageOnlyChanged(a) ==
    \A b \in MessageAttrs : (MessageDesired(b) # mop.prior[b]) <=> (b = a)

MissingEmergencyFields ==
    /\ MessageDesired("priority") = <<2>>
    /\ mop.cfg["retry"] = <<>> \/ mop.cfg["expire"] = <<>>

\* C1: Create reports Missing Emergency Fields exactly when priority is 2 and
\* retry or expire is unset, and then it has issued no call and recorded no
\* state; no other priority makes it report that error.
C1_EmergencyFieldsRequired ==
    mop.name \in {"create", "replace"} =>
        /\ ("Missing Emergency Fields" \in Range(mdiags)) <=> MissingEmergencyFields
        /\ MissingEmergencyFields => mcalls = <<>> /\ mstate = NoState

C1_Witness ==
    /\ mop.name = "create"
    /\ mop.cfg["retry"] # <<>>
    /\ mop.cfg["expire"] = <<>>
    /\ mdiags = <<"Missing Emergency Fields">>

\* C2: a change to only one attribute of a message, whichever it is, is a
\* replace that issues a new send call; it is never an update or a no-op.
C2_EveryFieldForcesReplace ==
    mop.name \in {"update", "replace"} =>
        \A a \in MessageAttrs : MessageOnlyChanged(a) =>
            /\ mop.name = "replace"
            /\ ~MissingEmergencyFields =>
                  /\ Len(mcalls) = 1
                  /\ mcalls[1].req.endpoint = "messages"


\* ------------------------------------------------------------------- client
MaxErrors == 2

HTTPCodes == {200, 400, 500}
DiagMessages == {"application token is invalid", "user identifier is invalid"}
ErrorLists == UNION {[1..n -> DiagMessages] : n \in 0..MaxErrors}

\* a response body: not JSON at all, or a JSON object with its status field
\* (<<>> when absent) and errors list; fits says whether its other fields
\* have the types of the operation's response struct
Bodies ==
    {[json |-> FALSE, fits |-> FALSE, status |-> <<>>, errors |-> <<>>]}
        \cup [json : {TRUE}, fits : BOOLEAN,
              status : {<<>>, <<0>>, <<1>>, <<2>>}, errors : ErrorLists]

\* what the transport hands back: a failure to send, a body that cannot be
\* read, or a response with an HTTP status code and a body
Responses ==
    [transport : {"ok", "send failed", "read failed"}, code : HTTPCodes, body : Bodies]

\* strings.Join
RECURSIVE Join(_, _)
Join(elems, sep) ==
    IF elems = <<>> THEN ""
    ELSE IF Len(elems) = 1 THEN elems[1]
    ELSE elems[1] \o sep \o Join(Tail(elems), sep)

\* an error is <<>> (nil) or <<text>>; a decoded value is <<>> (nil) or <<v>>
Failure(text) == [err |-> <<text>>, out |-> <<>>]

\* the statusChecker that doPost and doGet decode the body into
StatusChecker(body) ==
    [Status |-> IF body.status = <<>> THEN 0 ELSE body.status[1],
     Errors |-> body.errors]

\* faulty variant, for comparison: a transport status other than 200 is an error
DoPostChecksHTTPCode(resp) ==
    IF resp.transport = "send failed" THEN Failure("sending request")
    ELSE IF resp.transport = "read failed" THEN Failure("reading response")
    ELSE IF resp.code # 200 THEN Failure("unexpected HTTP status")
    ELSE IF ~resp.body.json \/ ~resp.body.fits THEN Failure("decoding response")
    ELSE LET sc == StatusChecker(resp.body)
         IN IF sc.Status # 1
            THEN Failure("pushover API error: " \o Join(sc.Errors, "; "))
            ELSE [err |-> <<>>, out |-> <<sc>>]

DoPost(resp) ==
    IF resp.transport = "send failed" THEN Failure("sending request")
    ELSE IF resp.transport = "read failed" THEN Failure("reading response")
    ELSE IF ~resp.body.json \/ ~resp.body.fits THEN Failure("decoding response")
    ELSE LET sc == StatusChecker(resp.body)
         IN IF sc.Status # 1
            THEN Failure("pushover API error: " \o Join(sc.Errors, "; "))
            ELSE [err |-> <<>>, out |-> <<sc>>]

DoGet(resp) ==
    IF resp.transport = "send failed" THEN Failure("sending request")
    ELSE IF resp.transport = "read failed" THEN Failure("reading response")
    ELSE IF ~resp.body.json \/ ~resp.body.fits THEN Failure("decoding response")
    ELSE LET sc == StatusChecker(resp.body)
         IN IF sc.Status # 1
            THEN Failure("pushover API error: " \o Join(sc.Errors, "; "))
            ELSE [err |-> <<>>, out |-> <<sc>>]

\* a client operation returns (nil, err) when doPost or doGet returned an error
ClientOperation(method, resp) ==
    LET r == IF method = "POST" THEN DoPost(resp) ELSE DoGet(resp)
    IN IF r.err # <<>> THEN [err |-> r.err, out |-> <<>>] ELSE r

ClientInit == MessageInit

ClientPost ==
    \E resp \in Responses :
        /\ cop' = [name |-> "call", method |-> "POST", resp |-> resp]
        /\ cres' = ClientOperation("POST", resp)
        /\ UNCHANGED <<gvars, mvars, client>>

ClientGet ==
    \E resp \in Responses :
        /\ cop' = [name |-> "call", method |-> "GET", resp |-> resp]
        /\ cres' = ClientOperation("GET", resp)
        /\ UNCHANGED <<gvars, mvars, client>>

ClientNext == ClientPost \/ ClientGet

SpecClient == ClientInit /\ [][ClientNext]_vars

\* ------------------------------------------------------------ client claims
\* the status field of the body the client received, <<>> when there is none
StatusField == IF cop.resp.body.json THEN cop.resp.body.status ELSE <<>>

\* the texts that can stand before and after a diagnostic in an error text
Prefixes ==
    {pre \o Join(l, "; ") \o sep :
        pre \in {"", "pushover API error: "}, l \in ErrorLists, sep \in {"", "; "}}

Suffixes == {sep \o Join(l, "; ") : sep \in {"", "; "}, l \in ErrorLists}

Contains(text, part) == \E p \in Prefixes, q \in Suffixes : text = p \o part \o q

CarriesDiagnostics ==
    \A i \in 1..Len(cop.resp.body.errors) : Contains(cres.err[1], cop.resp.body.errors[i])

Decodes == cop.resp.transport = "ok" /\ cop.resp.body.json /\ cop.resp.body.fits

\* C8 as claimed: whenever a response was received, the operation returns an
\* error and no value exactly when the body's status field is not 1, and the
\* error text carries every diagnostic message of the response.
C8_StatusAloneDecides ==
    (cop.name = "call" /\ cop.resp.transport = "ok") =>
        /\ ((cres.err # <<>> /\ cres.out = <<>>) <=> (StatusField # <<1>>))
        /\ (cres.err # <<>> => CarriesDiagnostics)

\* C8 as amended: for a body that decodes into the response type, the
\* operation returns an error and no value exactly when the status field is
\* not 1, whatever the HTTP status code, and the error text carries every
\* diagnostic message; a transport failure, an unreadable body and a body
\* that does not decode are errors with no value too.
C8_StatusDecidesDecodedBody ==
    cop.name = "call" =>
        /\ ((cres.err # <<>>) <=> (cres.out = <<>>))
        /\ (Decodes => ((cres.err # <<>>) <=> (StatusField # <<1>>)))
        /\ (Decodes => (cres.err # <<>> => CarriesDiagnostics))
        /\ (~Decodes => cres.err # <<>>)

C8_Witness ==
    /\ cop.name = "call"
    /\ Decodes
    /\ cop.resp.code = 200
    /\ StatusField = <<0>>
    /\ Len(cop.resp.body.errors) = 2
    /\ cres.err # <<>>
    /\ cres.out = <<>>


\* --------------------------------------------------- further message claims
\* C16: a successful Create records the request identifier of the reply, and
\* a receipt only at priority 2: the reply's receipt then, the empty string at
\* every other priority whatever the reply holds.
C16_ReceiptOnlyEmergency ==
    (mop.name \in {"create", "replace"} /\ mdiags = <<>>) =>
        /\ mstate.request_id = mop.reply.request
        /\ MessageDesired("priority") = <<2>> => mstate.receipt = mop.reply.receipt
        /\ MessageDesired("priority") # <<2>> => mstate.receipt = ""

\* C17: Read, Update and Delete of a message issue no call and report no
\* error, and Read leaves the recorded state as it was.
C17_MessageNoOps ==
    mop.name \in {"read", "update", "delete"} =>
        /\ mcalls = <<>>
        /\ mdiags = <<>>
        /\ mop.name \in {"read", "update"} => mstate = mop.prior
        /\ mop.name = "delete" => mstate = NoState

C17_Witness ==
    /\ mop.name = "read"
    /\ mstate # NoState
    /\ mstate.request_id = "req-1"
    /\ mcalls = <<>>

\* the configuration of the last apply is outside a range of the contract
OutOfRange ==
    LET c == mop.cfg
    IN \/ c["priority"] # <<>> /\ c["priority"][1] \notin -2..2
       \/ Len(c["message"]) \notin 1..1024
       \/ c["title"] # Null /\ Len(c["title"]) > 250
       \/ c["url"] # Null /\ Len(c["url"]) > 512
       \/ c["url_title"] # Null /\ Len(c["url_title"]) > 100
       \/ c["ttl"] # <<>> /\ c["ttl"][1] < 1
       \/ c["retry"] # <<>> /\ c["retry"][1] < 30
       \/ c["expire"] # <<>> /\ c["expire"][1] \notin 1..10800

\* C19: an apply is rejected by validation, with an error, no call and the
\* state untouched, exactly when its configuration is outside one of the
\* ranges; a configuration inside all of them reaches its handler.
C19_RangesValidated ==
    mop.name \in {"create", "update", "replace", "rejected"} =>
        /\ OutOfRange <=> (mop.name = "rejected")
        /\ mop.name = "rejected" =>
              /\ mcalls = <<>>
              /\ mdiags # <<>>
              /\ mstate = mop.prior

C19_Witness ==
    /\ mop.name = "rejected"
    /\ mop.cfg["priority"] = <<2>>
    /\ mop.cfg["retry"] = <<10>>
    /\ mop.cfg["expire"] = <<3600>>
    /\ mcalls = <<>>

\* the parameters of the send call of the last Create
SentParams == mcalls[1].req.params

MessageSent == mop.name \in {"create", "replace"} /\ Len(mcalls) = 1

\* attribute a of the configuration reached the send call with value text
Forwarded(a, text) == a \in DOMAIN SentParams /\ SentParams[a] = text

PriorityOf(cfg) == IF cfg.priority = <<>> THEN 0 ELSE cfg.priority[1]

\* title .. ttl are forwarded when set
PlainFieldsForwarded ==
    /\ \A a \in {"title", "url", "url_title", "sound", "device"} :
           mop.cfg[a] # Null => Forwarded(a, mop.cfg[a])
    /\ \A a \in {"timestamp", "ttl"} :
           mop.cfg[a] # <<>> => Forwarded(a, ToString(mop.cfg[a][1]))
    /\ \A a \in {"html", "monospace"} :
           mop.cfg[a] = <<TRUE>> => Forwarded(a, "1")
    /\ Forwarded("priority", ToString(PriorityOf(mop.cfg)))

\* C24, as stated: Create forwards every optional field that is set, retry,
\* expire and callback included, at every priority, and always sends priority.
C24_EverySetFieldForwarded ==
    MessageSent =>
        /\ PlainFieldsForwarded
        /\ \A a \in {"retry", "expire"} :
               mop.cfg[a] # <<>> => Forwarded(a, ToString(mop.cfg[a][1]))
        /\ mop.cfg.callback # Null => Forwarded("callback", mop.cfg.callback)

\* C24, amended: Create forwards title, url, url_title, sound, device,
\* timestamp, html, monospace and ttl when set, at every priority; it
\* forwards retry, expire and callback at priority 2 only and sends none of
\* them at any other priority; it always sends priority (0 when unset).
C24_EmergencyFieldsAtPriority2Only ==
    MessageSent =>
        /\ PlainFieldsForwarded
        /\ PriorityOf(mop.cfg) = 2 =>
               /\ Forwarded("retry", ToString(mop.cfg.retry[1]))
               /\ Forwarded("expire", ToString(mop.cfg.expire[1]))
               /\ mop.cfg.callback # Null => Forwarded("callback", mop.cfg.callback)
        /\ PriorityOf(mop.cfg) # 2 =>
               {"retry", "expire", "callback"} \cap DOMAIN SentParams = {}

\* a message of default priority with retry set was sent without retry
C24_Witness ==
    /\ MessageSent /\ mop.cfg.priority = <<>> /\ mop.cfg.retry = <<60>>
    /\ "retry" \notin DOMAIN SentParams
    /\ Forwarded("priority", "0")



\* ----------------------------------------------------------------- provider
\* faulty variant, for comparison: an empty api_token attribute falls back to the environment
ProviderConfigureEmptyFallsBack(attr, env) ==
    LET apiToken == IF ~IsNull(attr) /\ attr # Unknown /\ ValueString(attr) # ""
                    THEN ValueString(attr) ELSE env
    IN IF apiToken = ""
       THEN [apiToken |-> apiToken, client |-> <<>>, diags |-> <<"Missing API Token">>]
       ELSE [apiToken |-> apiToken, client |-> <<NewClient(apiToken)>>, diags |-> <<>>]

\* PushoverProvider.Configure: attr is the api_token attribute, env the value
\* of PUSHOVER_API_TOKEN ("" when it is not set); client is what is handed to
\* the resources and data sources
ProviderConfigure(attr, env) ==
    LET apiToken == IF ~IsNull(attr) /\ attr # Unknown THEN ValueString(attr) ELSE env
    IN IF apiToken = ""
       THEN [apiToken |-> apiToken, client |-> <<>>, diags |-> <<"Missing API Token">>]
       ELSE [apiToken |-> apiToken, client |-> <<NewClient(apiToken)>>, diags |-> <<>>]

\* faulty variant, for comparison: the per-call token is ignored
ValidateUserIgnoresOverride(token, req) ==
    [method |-> "POST", endpoint |-> "users/validate",
     params |-> [n \in {"token", "user"} \cup (IF req.Device # "" THEN {"device"} ELSE {})
                   |-> CASE n = "token" -> token
                         [] n = "user" -> req.User
                         [] n = "device" -> req.Device]]

\* Client.ValidateUser of a client whose token is token
ValidateUser(token, req) ==
    [method |-> "POST", endpoint |-> "users/validate",
     params |-> [n \in {"token", "user"} \cup (IF req.Device # "" THEN {"device"} ELSE {})
                   |-> CASE n = "token" -> IF req.Token = "" THEN token ELSE req.Token
                         [] n = "user" -> req.User
                         [] n = "device" -> req.Device]]

ProviderTokens == {Null, Unknown, "", "cfgtok"}
EnvTokens == {"", "envtok"}
CallTokens == {"", "tok2"}

ValidateRequests == [Token : CallTokens, User : {"u1", "u2"}, Device : {"", "iphone"}]

\* the requests the message resource builds, with and without a per-call token
MessageRequests ==
    {[MessageRequestOf(MessagePlan(cfg, NoState)) EXCEPT !.Token = t] :
        cfg \in {c \in OneChange(PlainMessage) : MessageValidate(c) = <<>>},
        t \in CallTokens}

ProviderInit ==
    /\ remote = <<>>
    /\ gstate = NoState
    /\ gop = NoOp
    /\ gcalls = <<>>
    /\ gdiags = <<>>
    /\ nops = 0
    /\ mstate = NoState
    /\ mop = NoOp
    /\ mcalls = <<>>
    /\ mdiags = <<>>
    /\ cop = NoOp
    /\ cres = NoOp
    /\ client = <<>>

\* the per-call token of the call before this one, Null when there was none
PreviousCallToken == IF cop.name \in {"SendMessage", "ValidateUser"} THEN cop.reqToken ELSE Null

\* the provider is configured once, before anything else
ProviderSetup ==
    \E attr \in ProviderTokens, env \in EnvTokens :
        LET r == ProviderConfigure(attr, env)
        IN /\ cop = NoOp
           /\ cop' = [name |-> "configure", api_token |-> attr, env |-> env]
           /\ cres' = [apiToken |-> r.apiToken, diags |-> r.diags]
           /\ client' = r.client
           /\ UNCHANGED <<gvars, mvars>>

\* a resource or data source calls SendMessage on the client it was handed
ClientSendMessage ==
    \E req \in MessageRequests :
        /\ client # <<>>
        /\ cop' = [name |-> "SendMessage", reqToken |-> req.Token,
                   after |-> PreviousCallToken,
                   sent |-> SendMessage(client[1].token, req)]
        /\ UNCHANGED <<gvars, mvars, cres, client>>

ClientValidateUser ==
    \E req \in ValidateRequests :
        /\ client # <<>>
        /\ cop' = [name |-> "ValidateUser", reqToken |-> req.Token,
                   after |-> PreviousCallToken,
                   sent |-> ValidateUser(client[1].token, req)]
        /\ UNCHANGED <<gvars, mvars, cres, client>>

ProviderNext ==
    \/ ProviderSetup
    \/ ClientSendMessage
    \/ ClientValidateUser

SpecProvider == ProviderInit /\ [][ProviderNext]_vars

\* ---------------------------------------------------------- provider claims
\* C15: SendMessage and ValidateUser send the per-call token when it is not
\* empty and the token the client was configured with otherwise, also after
\* earlier calls that used a per-call token; the client keeps its token.
C15_TokenOverride ==
    cop.name \in {"SendMessage", "ValidateUser"} =>
        /\ cop.sent.params["token"] =
              IF cop.reqToken # "" THEN cop.reqToken ELSE cres.apiToken
        /\ client = <<NewClient(cres.apiToken)>>

C15_Witness ==
    /\ cop.name = "SendMessage"
    /\ cop.after = "tok2"
    /\ cop.reqToken = ""
    /\ cop.sent.params["token"] = "envtok"

\* C20: Configure takes the api_token attribute when it is set and the
\* environment variable otherwise, reports Missing API Token exactly when that
\* token is empty, and then hands out no client; every call is made through a
\* client of a configuration that succeeded.
C20_ConfigureToken ==
    /\ cop.name = "configure" =>
          LET token == IF cop.api_token \notin {Null, Unknown}
                       THEN cop.api_token ELSE cop.env
          IN /\ (cres.diags = <<"Missing API Token">>) <=> (token = "")
             /\ (cres.diags = <<>>) <=> (token # "")
             /\ token = "" => client = <<>>
             /\ token # "" => client = <<NewClient(token)>>
    /\ cop.name \in {"SendMessage", "ValidateUser"} =>
          /\ cres.diags = <<>>
          /\ client # <<>>
          /\ cop.sent.params["token"] # ""

C20_Witness ==
    /\ cop.name = "configure"
    /\ cop.api_token = Null
    /\ cop.env = ""
    /\ cres.diags = <<"Missing API Token">>
    /\ client = <<>>


\* ------------------------------------------- one reconciliation attempt
\* A run reconciles the group membership or sends a message: the two
\* resources share no state, so their steps are not interleaved here.
AttemptGroup == mop.name = "none" /\ GroupNext

AttemptMessage == gop.name = "none" /\ MessageApplyCreate

AttemptNext == AttemptGroup \/ AttemptMessage

SpecAttempt == GroupInit /\ [][AttemptNext]_vars

\* no remote operation appears twice among the calls of one handler
IssuedOnce(calls) ==
    \A i, j \in 1..Len(calls) :
        calls[i].req.endpoint = calls[j].req.endpoint => i = j

\* a failed call is the last call
StopsAtFailure(calls) ==
    \A i \in 1..Len(calls) : ~calls[i].ok => i = Len(calls)

\* C22: within one Create, Read, Update or Delete of a group membership (and
\* within the Delete-then-Create of a replacement) and within one Create of
\* a message, no remote operation is issued twice and no call follows a
\* failed call.
C22_NoRetryNoContinue ==
    /\ gop.name \in {"create", "read", "update", "delete", "replace"} =>
           IssuedOnce(gcalls) /\ StopsAtFailure(gcalls)
    /\ mop.name = "create" =>
           Len(mcalls) <= 1 /\ StopsAtFailure(mcalls)

\* an Update that had to change memo and disabled and stopped at the failed
\* add-member call
C22_Witness ==
    /\ gop.name = "update" /\ gop.failAt = 1
    /\ GroupUserChanged(GroupUserPlan(gop.cfg, gop.prior), gop.prior)
          = {"memo", "disabled"}
    /\ Len(gcalls) = 1 /\ ~gcalls[1].ok
    /\ remote = gop.before


\* ------------------------------------------------- computed identifier
\* natural keys whose strings may contain the separator; an absent device
\* is the empty string
IdGroups == {"G1", "G1/U1"}
IdUsers == {"U1", "iphone", "U1/iphone"}
IdDevices == {"", "iphone"}
NaturalKeys == IdGroups \X IdUsers \X IdDevices

\* the identifier Create records for the entity of natural key k
IdentifierOf(k) ==
    GroupUserCreate([group_key |-> k[1], user_key |-> k[2],
                     device |-> IF k[3] = "" THEN Null ELSE k[3],
                     memo |-> Null, disabled |-> BoolValue(FALSE), id |-> Unknown],
                    <<>>, 0).state.id

\* two entities are created and their identifiers compared
IdentifierCompare ==
    \E k1 \in NaturalKeys, k2 \in NaturalKeys :
        /\ cop' = [name |-> "ids", keys |-> <<k1, k2>>]
        /\ cres' = [ids |-> <<IdentifierOf(k1), IdentifierOf(k2)>>]
        /\ UNCHANGED <<gvars, mvars, client>>

IdentifierNext == IdentifierCompare

SpecIdentifier == ClientInit /\ [][IdentifierNext]_vars

\* C26: entities of distinct natural keys get distinct identifiers, also
\* when a key string contains "/" and when the device is empty.
C26_IdentifierInjective ==
    cop.name = "ids" =>
        (cop.keys[1] # cop.keys[2] => cres.ids[1] # cres.ids[2])


\* ---------------------------------------------- reconciliation cycles
\* One desired membership, never changed, is reconciled again and again
\* (terraform apply: refresh, plan, and Update when the plan differs)
\* against a remote that never fails. The membership was created before
\* with this configuration; since then the row's memo and flag may have
\* been changed by others.
ConvergeConfigs ==
    [group_key : {"G1"}, user_key : {"U1"}, device : Devices,
     memo : Memos, disabled : {<<>>, <<TRUE>>}]

ConvergeRows(cfg) ==
    [group : {cfg.group_key}, user : {cfg.user_key},
     device : {ValueString(cfg.device)},
     memo : {"", "old", "lead"}, disabled : BOOLEAN]

ConvergeInit ==
    \E cfg \in ConvergeConfigs :
        /\ remote \in {<<r>> : r \in ConvergeRows(cfg)}
        /\ gstate = [GroupUserPlan(cfg, NoState) EXCEPT
                        !.id = ComputeID(cfg.group_key, cfg.user_key,
                                         ValueString(cfg.device))]
        /\ gop = [name |-> "start", cfg |-> cfg]
        /\ gcalls = <<>>
        /\ gdiags = <<>>
        /\ nops = 0
        /\ mstate = NoState
        /\ mop = NoOp
        /\ mcalls = <<>>
        /\ mdiags = <<>>
        /\ cop = NoOp
        /\ cres = NoOp
        /\ client = <<NewClient(ClientToken)>>

ConvergeDone(name, res) ==
    /\ gop' = [name |-> name, cfg |-> gop.cfg]
    /\ gstate' = res.state
    /\ remote' = res.remote
    /\ gcalls' = res.calls
    /\ gdiags' = res.diags
    /\ UNCHANGED <<nops, mvars, cvars>>

\* a cycle starts with Read
ConvergeRead ==
    /\ gop.name \in {"start", "update", "noop"}
    /\ ConvergeDone("read", GroupUserRead(gstate, remote, 0))

\* the plan differs from the refreshed state: Update
ConvergeUpdate ==
    /\ gop.name = "read"
    /\ GroupUserPlannedAction(gop.cfg, gstate) = "update"
    /\ ConvergeDone("update",
                    GroupUserUpdate(GroupUserPlan(gop.cfg, gstate), gstate, remote, 0))

\* the plan equals the refreshed state: nothing to do
ConvergeNoop ==
    /\ gop.name = "read"
    /\ GroupUserPlannedAction(gop.cfg, gstate) = "noop"
    /\ ConvergeDone("noop", Result(gstate, remote, <<>>, <<>>))

ConvergeNext == ConvergeRead \/ ConvergeUpdate \/ ConvergeNoop

\* cycles keep being run
SpecConverge == ConvergeInit /\ [][ConvergeNext]_vars /\ WF_vars(ConvergeNext)

\* a step of a cycle that writes nothing and, when it is the end of a cycle,
\* has the observed state equal to the plan
Settled ==
    /\ \A i \in 1..Len(gcalls) : ~IsWrite(gcalls[i])
    /\ gop.name = "noop" => gstate = GroupUserPlan(gop.cfg, gstate)

\* C27: for every desired memo, empty or not, and every initial memo and
\* disabled flag of the remote row, the cycles eventually reach a fixed
\* point: from some cycle on no write call is issued and the observed state
\* equals the desired state.
C27_Converges == <>[]Settled


\* ------------------------------------------------- sounds data source
SoundKeys == {"bike", "pushover", "siren"}

SoundName(k) ==
    CASE k = "bike" -> "Bike" [] k = "pushover" -> "Pushover (default)"
      [] k = "siren" -> "Siren"

\* SoundsResponse.Sounds as decoded from the body of /sounds.json
SoundsResponses == {[k \in S |-> SoundName(k)] : S \in SUBSET SoundKeys}

\* the orders in which a range over a map of keys S can visit them: the
\* language leaves the order open and it may differ from one range to the next
RangeOrders(S) ==
    {f \in [1..Cardinality(S) -> S] :
        \A i, j \in 1..Cardinality(S) : f[i] = f[j] => i = j}

\* the slice of Sound built by ranging over resp.Sounds in the given order
GetSounds(sounds, order) ==
    [i \in 1..Len(order) |-> [Key |-> order[i], Name |-> sounds[order[i]]]]

\* Read of the data source after a fetch: ok tells whether GetSounds
\* returned without error
SoundsRead(sounds, order, ok) ==
    LET list == GetSounds(sounds, order)
    IN IF ~ok
       THEN [diags |-> <<"Failed to fetch Pushover sounds">>]
       ELSE [diags |-> <<>>,
             sounds |-> [k \in {list[i].Key : i \in 1..Len(list)} |->
                            LET i == CHOOSE i \in 1..Len(list) : list[i].Key = k
                            IN list[i].Name],
             keys |-> [i \in 1..Len(list) |-> list[i].Key],
             id |-> "sounds"]

SoundsInit ==
    /\ remote \in SoundsResponses
    /\ gstate = NoState
    /\ gop = NoOp
    /\ gcalls = <<>>
    /\ gdiags = <<>>
    /\ nops = 0
    /\ mstate = NoState
    /\ mop = NoOp
    /\ mcalls = <<>>
    /\ mdiags = <<>>
    /\ cop = NoOp
    /\ cres = NoOp
    /\ client = <<NewClient(ClientToken)>>

\* one Read of the data source; cres keeps its result and that of the Read
\* before it
SoundsDataSourceRead ==
    \E ok \in BOOLEAN, order \in RangeOrders(DOMAIN remote) :
        /\ cop' = [name |-> "sounds",
                   calls |-> <<Issued([method |-> "GET", endpoint |-> "sounds",
                                       params |-> [n \in {"token"} |-> ClientToken]],
                                      ok)>>]
        /\ cres' = [last |-> SoundsRead(remote, order, ok),
                    previous |-> IF cop.name = "sounds" THEN cres.last ELSE NoOp]
        /\ UNCHANGED <<gvars, mvars, client>>

SoundsNext == SoundsDataSourceRead

SpecSounds == SoundsInit /\ [][SoundsNext]_vars

\* C30: a Read makes one fetch; its sounds map is the response's map and its
\* keys list holds each key of the map once; two Reads of the same response
\* give identical results, the order of the keys list included.
C30_SoundsDeterministic ==
    cop.name = "sounds" =>
        /\ Len(cop.calls) = 1
        /\ cres.last.diags = <<>> =>
               /\ cres.last.sounds = remote
               /\ {cres.last.keys[i] : i \in 1..Len(cres.last.keys)} = DOMAIN remote
               /\ Len(cres.last.keys) = Cardinality(DOMAIN remote)
        /\ (/\ cres.previous # NoOp
            /\ cres.last.diags = <<>>
            /\ cres.previous.diags = <<>>) => cres.last = cres.previous

====
